---- MODULE Spec2Model ----
(***************************************************************************)
(* NOTIS PRO: delivery batches of legal notifications ("intimacoes").      *)
(* A model of the App component (App.tsx), its data handlers, its modal    *)
(* forms and their zod schemas.                                            *)
(*                                                                         *)
(* Strings that the code measures or parses are sequences: the empty       *)
(* string is <<>>, a datetime-local form value is <<"local", t>>, a date   *)
(* form value is <<"date", t>> and an ISO string is <<"iso", t>>, where t  *)
(* is the instant the string denotes.  Identifiers and names are TLA+      *)
(* strings; the empty one is "".                                           *)
(***************************************************************************)
EXTENDS Integers, Sequences, FiniteSets, TLC

\* ---------------------------------------------------------------- bounds
MaxClock == 1
MaxPeople == 2
MaxCouriers == 1
MaxBatches == 2
MaxInitial == 1

\* ------------------------------------------------------------- constants
DELIVERY_FEE == 3
ARCHIVE_DELAY_DAYS == 4
MsPerDay == 1000 * 60 * 60 * 24

\* What `createFinalizeBatchSchema(batch).omit(...)` does depends on the zod
\* the build links: the result of superRefine has no omit method (zod 3) or
\* omit refuses a refined object (zod >= 4.3), so the call throws; or omit
\* returns the object schema without its refinements (zod 4.0 - 4.2).
ZodOmitOutcomes == {"throws", "dropsChecks"}

Views == {"Dashboard", "Archive", "DeliveryPeople", "AddDeliveryPerson",
          "DeliveryPersonProfile"}
navItems == {"Dashboard", "Archive", "DeliveryPeople", "AddDeliveryPerson"}

ModalNames == {"newBatch", "finalizeBatch", "batchDetails", "editBatch",
               "editPerson", "confirm"}

CountFields == {"pgfnDelivered", "pgfnReturned", "pgfnAbsent",
                "normalDelivered", "normalReturned", "normalAbsent"}
FinalizedOnlyFields == CountFields \cup {"totalValue", "returnDatetime"}

\* ------------------------------------------------------------ form inputs
Names == {"ana", "Bia"}
NameInputs == Names \cup {""}
InitialInputs == 0..MaxInitial
CountInputs == 0..MaxInitial
ReturnInputs == {<<>>, <<"local", 1>>, <<"local", 2>>}

\* The names an edit may give a person.
RenameInputs == Names \cup {"Caio"}

\* The ids of the people a select of the form offers, and its empty option.
SelectOptions(people) == {""} \cup {people[i].id : i \in 1..Len(people)}

\* The new-batch form: pgfn and normal counts from the given sets.
NewBatchForms(people, pgfn, normal) ==
    [deliveryPersonId : SelectOptions(people),
     pgfnInitial : pgfn,
     normalInitial : normal,
     departureDatetime : {<<"local", 1>>},
     estimatedReturnDate : {<<"date", 2>>},
     description : {""}]

\* The six count fields of the finalize and edit forms.
CountForms(pgfn, normal) ==
    [pgfnDelivered : pgfn, pgfnReturned : pgfn, pgfnAbsent : pgfn,
     normalDelivered : normal, normalReturned : normal, normalAbsent : normal]

\* The count forms that report at most `most` items in each category.
CountFormsUpTo(most) ==
    {c \in CountForms(CountInputs, CountInputs) :
        /\ c.pgfnDelivered + c.pgfnReturned + c.pgfnAbsent <= most
        /\ c.normalDelivered + c.normalReturned + c.normalAbsent <= most}

CtlCountForms == CountFormsUpTo(MaxInitial)

FinalizeForms(returns, pgfn, normal) ==
    {[k \in CountFields \cup {"returnDatetime"} |->
         IF k = "returnDatetime" THEN r ELSE c[k]] :
       r \in returns, c \in CountForms(pgfn, normal)}

\* ------------------------------------------------------- pure helpers
\* { ...a, ...b }
Spread(a, b) ==
    [k \in (DOMAIN a) \cup (DOMAIN b) |-> IF k \in DOMAIN b THEN b[k] ELSE a[k]]

\* new Date(s).getTime()
GetTime(s) == s[2]

\* new Date(s).toISOString()
ToISOString(s) == <<"iso", GetTime(s)>>

\* Date.now().toString()
NewId(t) == ToString(t)

\* a.localeCompare(b) < 0 on the names of the model: the locale order puts
\* lower case before upper case of a later letter ("ana" < "Bia").
LocaleRank(name) == CASE name = "ana" -> 1
                      [] name = "Bia" -> 2
                      [] name = "Caio" -> 3
                      [] OTHER -> 0

localeCompare(a, b) == LocaleRank(a) - LocaleRank(b)

\* Array.prototype.sort with (a,b) => a.name.localeCompare(b.name): stable.
RECURSIVE InsertByName(_, _)
InsertByName(sorted, p) ==
    IF sorted = <<>> THEN <<p>>
    ELSE IF localeCompare(p.name, Head(sorted).name) < 0
         THEN <<p>> \o sorted
         ELSE <<Head(sorted)>> \o InsertByName(Tail(sorted), p)

RECURSIVE SortByName(_)
SortByName(s) ==
    IF s = <<>> THEN <<>>
    ELSE InsertByName(SortByName(SubSeq(s, 1, Len(s) - 1)), s[Len(s)])

\* ------------------------------------------------------ data handlers
addDeliveryPerson(prev, person, t) ==
    SortByName(Append(prev, Spread(person, [id |-> NewId(t)])))

\* An update that leaves the renamed person where it was.
updateDeliveryPersonInPlace(prev, updatedPerson) ==
    [i \in 1..Len(prev) |->
        IF prev[i].id = updatedPerson.id THEN updatedPerson ELSE prev[i]]

updateDeliveryPerson(prev, updatedPerson) ==
    SortByName([i \in 1..Len(prev) |->
                  IF prev[i].id = updatedPerson.id THEN updatedPerson ELSE prev[i]])

deleteDeliveryPersonPeople(prev, personId) ==
    LET Keep(p) == p.id # personId IN SelectSeq(prev, Keep)

\* A cascade that compares the wrong field of the batch.
deleteDeliveryPersonBatchesById(prev, personId) ==
    LET Keep(b) == b.id # personId IN SelectSeq(prev, Keep)

deleteDeliveryPersonBatches(prev, personId) ==
    LET Keep(b) == b.deliveryPersonId # personId IN SelectSeq(prev, Keep)

addBatch(prev, batch, t) ==
    <<Spread(batch, [id |-> NewId(t)])>> \o prev

updateBatch(prev, updatedBatch) ==
    [i \in 1..Len(prev) |->
        IF prev[i].id = updatedBatch.id THEN updatedBatch ELSE prev[i]]

deleteBatch(prev, batchId) ==
    LET Keep(b) == b.id # batchId IN SelectSeq(prev, Keep)

\* ------------------------------------------------------------- schemas
\* newBatchSchema without its refine.
newBatchSchemaErrorsNoRefine(data) ==
    {k \in {"deliveryPersonId"} : data.deliveryPersonId = ""}
    \cup {k \in {"pgfnInitial"} : data.pgfnInitial < 0}
    \cup {k \in {"normalInitial"} : data.normalInitial < 0}
    \cup {k \in {"departureDatetime"} : Len(data.departureDatetime) < 1}
    \cup {k \in {"estimatedReturnDate"} : Len(data.estimatedReturnDate) < 1}

\* newBatchSchema with deliveryPersonId: z.string() and no min(1).
newBatchSchemaErrorsNoMin(data) ==
    {k \in {"pgfnInitial"} : data.pgfnInitial < 0}
    \cup {k \in {"normalInitial"} : data.normalInitial < 0}
    \cup {k \in {"departureDatetime"} : Len(data.departureDatetime) < 1}
    \cup {k \in {"estimatedReturnDate"} : Len(data.estimatedReturnDate) < 1}
    \cup {k \in {"pgfnInitial"} : ~(data.pgfnInitial > 0 \/ data.normalInitial > 0)}

\* The keys of getZodFieldErrors(result.error); the empty set is success.
newBatchSchemaErrors(data) ==
    {k \in {"deliveryPersonId"} : data.deliveryPersonId = ""}
    \cup {k \in {"pgfnInitial"} : data.pgfnInitial < 0}
    \cup {k \in {"normalInitial"} : data.normalInitial < 0}
    \cup {k \in {"departureDatetime"} : Len(data.departureDatetime) < 1}
    \cup {k \in {"estimatedReturnDate"} : Len(data.estimatedReturnDate) < 1}
    \cup {k \in {"pgfnInitial"} : ~(data.pgfnInitial > 0 \/ data.normalInitial > 0)}

countMinErrors(data) == {k \in CountFields : data[k] < 0}

conservationErrors(batch, data) ==
    {k \in {"pgfn"} :
        data.pgfnDelivered + data.pgfnReturned + data.pgfnAbsent # batch.pgfnInitial}
    \cup {k \in {"normal"} :
        data.normalDelivered + data.normalReturned + data.normalAbsent
            # batch.normalInitial}

finalizeBatchSchemaErrors(batch, data) ==
    {k \in {"returnDatetime"} : Len(data.returnDatetime) < 1}
    \cup countMinErrors(data)
    \cup conservationErrors(batch, data)

\* createEditBatchSchema under a zod whose omit drops the refinements.
editBatchSchemaErrors(batch, data) == countMinErrors(data)

\* A total that also pays the absent items.
totalPaidItemsWithAbsent(counts) ==
    counts.pgfnDelivered + counts.pgfnReturned + counts.pgfnAbsent
        + counts.normalDelivered + counts.normalReturned + counts.normalAbsent

totalPaidItems(counts) ==
    counts.pgfnDelivered + counts.pgfnReturned
        + counts.normalDelivered + counts.normalReturned

CountsOf(data) == [k \in CountFields |-> data[k]]

\* FinalizeBatchModal.handleSubmit: the batch handed to onFinalize.
finalizedBatch(batch, data) ==
    Spread(Spread(Spread(batch,
                         [status |-> "finalized",
                          returnDatetime |-> ToISOString(data.returnDatetime)]),
                  CountsOf(data)),
           [totalValue |-> totalPaidItems(data) * DELIVERY_FEE])

\* EditBatchModal.handleSubmit: the batch handed to onEdit.
editedBatch(batch, data) ==
    Spread(Spread(batch, CountsOf(data)),
           [totalValue |-> totalPaidItems(data) * DELIVERY_FEE])

\* ---------------------------------------------------------- projections
\* A test that archives from the delay on, against which the boundary is
\* measured.
diffDaysAtLeast(diff) == diff \div MsPerDay >= ARCHIVE_DELAY_DAYS

\* diffDays > ARCHIVE_DELAY_DAYS, where diffDays is the quotient of diff
\* milliseconds by the milliseconds of a day: whole days and a remainder.
diffDaysExceeds(diff) ==
    \/ diff \div MsPerDay > ARCHIVE_DELAY_DAYS
    \/ diff \div MsPerDay = ARCHIVE_DELAY_DAYS /\ diff % MsPerDay > 0

\* The test of the partition: the batch goes to `archived`.
isArchived(batch, t) ==
    /\ batch.status = "finalized"
    /\ "returnDatetime" \in DOMAIN batch
    /\ batch.returnDatetime # <<>>
    /\ diffDaysExceeds(t - GetTime(batch.returnDatetime))

\* sortFn(a, b) < 0: a goes before b.
\* A comparison that puts the earliest departure first.
sortFnAscending(a, b) == GetTime(a.departureDatetime) - GetTime(b.departureDatetime)

sortFn(a, b) == GetTime(b.departureDatetime) - GetTime(a.departureDatetime)

\* Array.prototype.sort(sortFn): stable.
RECURSIVE InsertByDeparture(_, _)
InsertByDeparture(sorted, b) ==
    IF sorted = <<>> THEN <<b>>
    ELSE IF sortFn(b, Head(sorted)) < 0
         THEN <<b>> \o sorted
         ELSE <<Head(sorted)>> \o InsertByDeparture(Tail(sorted), b)

RECURSIVE SortByDeparture(_)
SortByDeparture(s) ==
    IF s = <<>> THEN <<>>
    ELSE InsertByDeparture(SortByDeparture(SubSeq(s, 1, Len(s) - 1)), s[Len(s)])

\* The body of the first useMemo, run with new Date() reading t.
Partition(all, t) ==
    LET Archived(b) == isArchived(b, t)
        Main(b) == ~isArchived(b, t)
    IN [dashboardBatches |-> SortByDeparture(SelectSeq(all, Main)),
        archivedBatches |-> SortByDeparture(SelectSeq(all, Archived))]

\* (batch.field || 0)
orZero(batch, field) == IF field \in DOMAIN batch THEN batch[field] ELSE 0

\* batch.status === 'finalized' && batch.totalValue: a totalValue of 0 is
\* falsy.
isCounted(batch) ==
    /\ batch.status = "finalized"
    /\ "totalValue" \in DOMAIN batch
    /\ batch.totalValue # 0

deliveredOf(batch) == orZero(batch, "pgfnDelivered") + orZero(batch, "normalDelivered")
returnedOf(batch) == orZero(batch, "pgfnReturned") + orZero(batch, "normalReturned")
absentOf(batch) == orZero(batch, "pgfnAbsent") + orZero(batch, "normalAbsent")

\* The `summary` of the second useMemo after the forEach over `list`.
RECURSIVE summary(_)
summary(list) ==
    IF list = <<>>
    THEN [totalGains |-> 0, totalDelivered |-> 0, totalReturned |-> 0,
          totalAbsent |-> 0]
    ELSE LET before == summary(SubSeq(list, 1, Len(list) - 1))
             batch == list[Len(list)] IN
         IF isCounted(batch)
         THEN [totalGains |-> before.totalGains + batch.totalValue,
               totalDelivered |-> before.totalDelivered + deliveredOf(batch),
               totalReturned |-> before.totalReturned + returnedOf(batch),
               totalAbsent |-> before.totalAbsent + absentOf(batch)]
         ELSE before

\* deliveryPeople.forEach(p => { performance[p.id] = {...} }): one key per
\* id, the name of the last person of that id.
initialPerformance(people) ==
    [id \in {people[i].id : i \in 1..Len(people)} |->
        LET last == CHOOSE i \in 1..Len(people) :
                        /\ people[i].id = id
                        /\ \A j \in 1..Len(people) : people[j].id = id => j <= i
        IN [gains |-> 0, delivered |-> 0, returned |-> 0,
            name |-> people[last].name]]

\* The `performance` of the second useMemo after the forEach over `list`.
RECURSIVE performance(_, _)
performance(list, people) ==
    IF list = <<>>
    THEN initialPerformance(people)
    ELSE LET before == performance(SubSeq(list, 1, Len(list) - 1), people)
             batch == list[Len(list)] IN
         IF isCounted(batch) /\ batch.deliveryPersonId \in DOMAIN before
         THEN [before EXCEPT ![batch.deliveryPersonId] =
                  [gains |-> @.gains + batch.totalValue,
                   delivered |-> @.delivered + deliveredOf(batch),
                   returned |-> @.returned + returnedOf(batch),
                   name |-> @.name]]
         ELSE before

\* --------------------------------------------------------- persistence
\* A stored item is <<>> (no item), <<"text">> (a text that is no JSON) or
\* <<"json", v>> (the JSON text of the value v).  A JSON value is a record
\* [kind, batches, deliveryPeople]; an entry of it is [kind, items].
JsonEntry(kind, items) == [kind |-> kind, items |-> items]

JsonValue(kind, b, p) == [kind |-> kind, batches |-> b, deliveryPeople |-> p]

\* JSON.stringify({ batches, deliveryPeople })
Stringify(b, p) ==
    <<"json", JsonValue("object", JsonEntry("array", b), JsonEntry("array", p))>>

\* A save that writes the batches and no people.
saveEffectBatchesOnly(b, p, item, ok) ==
    IF ok THEN Stringify(b, <<>>) ELSE item

\* The save effect on the collections of its render: the item of the storage
\* after it.  setItem throws when the storage refuses the write (ok is
\* FALSE); the catch logs and the item stays.
saveEffect(b, p, item, ok) ==
    IF ok THEN Stringify(b, p) ELSE item

\* entry || []: a missing entry and a falsy one give the empty array.
orEmpty(entry) ==
    IF entry.kind \in {"missing", "falsy"} THEN JsonEntry("array", <<>>) ELSE entry

\* The load effect on the item of the storage: whether it reaches the two
\* setters, and what it hands them.  No item: the `if` is skipped.  A text
\* that is no JSON: JSON.parse throws.  null: data.batches throws.  The catch
\* logs.  Of any other value that is no object, both entries are undefined.
loadEffect(item) ==
    IF item = <<>> \/ item = <<"text">> \/ item[2].kind = "null"
    THEN [set |-> FALSE,
          batches |-> JsonEntry("array", <<>>),
          deliveryPeople |-> JsonEntry("array", <<>>)]
    ELSE [set |-> TRUE,
          batches |-> orEmpty(item[2].batches),
          deliveryPeople |-> orEmpty(item[2].deliveryPeople)]

\* ---------------------------------------------------------------- state
VARIABLES
    now,               \* Date.now()
    zodOmit,           \* what the linked zod does on createEditBatchSchema
    deliveryPeople,    \* useState<DeliveryPerson[]>
    batches,           \* useState<Batch[]>
    view,              \* useState<View>
    modalState,        \* useState({newBatch: false, ...})
    selectedBatch,     \* useState<Batch | null>: <<>> or <<batch>>
    selectedPerson,    \* useState<DeliveryPerson | null>: <<>> or <<person>>
    confirmModalProps, \* the onConfirm closure: [kind, id]
    errors,            \* the errors state of the three batch forms
    dashboardBatches,  \* useMemo(..., [batches]): the cached main list
    archivedBatches,   \* useMemo(..., [batches]): the cached archived list
    storage,           \* localStorage.getItem(LOCAL_STORAGE_KEY)
    pc,                \* the App: "running", "crashed", or a step of its mount
    description,       \* NewBatchModal: useState('')
    isGenerating,      \* NewBatchModal: useState(false)
    inFlight           \* the pending generateBatchDescription call

vars == <<now, zodOmit, deliveryPeople, batches, view, modalState,
          selectedBatch, selectedPerson, confirmModalProps, errors,
          dashboardBatches, archivedBatches, storage, pc,
          description, isGenerating, inFlight>>

\* useState({ message: '', onConfirm: () => {} })
NoConfirm == [kind |-> "none", id |-> ""]

NoErrors == [newBatch |-> {}, finalizeBatch |-> {}, editBatch |-> {}]

Init ==
    /\ now = 0
    /\ zodOmit \in ZodOmitOutcomes
    /\ deliveryPeople = <<>>
    /\ batches = <<>>
    /\ view = "Dashboard"
    /\ modalState = [m \in ModalNames |-> FALSE]
    /\ selectedBatch = <<>>
    /\ selectedPerson = <<>>
    /\ confirmModalProps = NoConfirm
    /\ errors = NoErrors
    /\ dashboardBatches = <<>>
    /\ archivedBatches = <<>>
    /\ storage = Stringify(<<>>, <<>>)
    /\ pc = "running"
    /\ description = ""
    /\ isGenerating = FALSE
    /\ inFlight = "none"

\* --------------------------------------------------------- UI handlers
openModal(ms, modalName) == [ms EXCEPT ![modalName] = TRUE]

closeModalState(ms, modalName) == [ms EXCEPT ![modalName] = FALSE]

\* closeModal resets the batch selection for the three batch modals.
closeModalBatch(sb, modalName) ==
    IF modalName \in {"finalizeBatch", "batchDetails", "editBatch"} THEN <<>> ELSE sb

\* setSelectedPerson(p => p?.id === selectedPerson?.id ? null : p), where
\* selectedPerson is the one of the render that made the callback.
closeModalPerson(sp, rendered, modalName) ==
    LET IdOf(x) == IF x = <<>> THEN "undefined" ELSE x[1].id IN
    IF modalName = "editPerson" /\ IdOf(sp) = IdOf(rendered) THEN <<>> ELSE sp

\* Modal renders nothing unless isOpen; the three batch modals are mounted
\* only while a batch is selected, the person modal while a person is.
Shown(modalName) ==
    /\ modalState[modalName]
    /\ modalName \in {"finalizeBatch", "batchDetails", "editBatch"}
          => selectedBatch # <<>>
    /\ modalName = "editPerson" => selectedPerson # <<>>

\* A shown Modal lays a fixed, full-screen layer over the page: what lies
\* under it takes no pointer click.
OverlayShown == \E m \in ModalNames : Shown(m)

\* The errors state of the forms after a step: each form clears it when its
\* isOpen turns true, and the batch modals lose it when they unmount.
errorsAfter(errs, ms, sb) ==
    [newBatch |->
        IF ms.newBatch /\ ~modalState.newBatch THEN {} ELSE errs.newBatch,
     finalizeBatch |->
        IF sb = <<>> \/ (ms.finalizeBatch /\ ~modalState.finalizeBatch)
        THEN {} ELSE errs.finalizeBatch,
     editBatch |->
        IF sb = <<>> \/ (ms.editBatch /\ ~modalState.editBatch)
        THEN {} ELSE errs.editBatch]


\* What React runs when it commits the updates of a handler that called
\* setBatches (setB) or setDeliveryPeople (setP): the first useMemo, whose
\* dependency is batches, and the save effect, whose dependencies are both
\* collections and whose write succeeds or not (ok).  Commit is the commit
\* under a storage that takes every write.
CommitWith(setB, setP, ok) ==
    /\ IF setB
       THEN /\ dashboardBatches' = Partition(batches', now').dashboardBatches
            /\ archivedBatches' = Partition(batches', now').archivedBatches
       ELSE UNCHANGED <<dashboardBatches, archivedBatches>>
    /\ storage' = IF setB \/ setP
                  THEN saveEffect(batches', deliveryPeople', storage, ok)
                  ELSE storage

Commit(setB, setP) == CommitWith(setB, setP, TRUE)

\* The commit of a handler of the specifications that keep the clock within
\* MaxClock, far from the archival delay: there a handler that sets a
\* collection to an equal one recomputes and saves what is cached and saved.
AfterCommit ==
    /\ Commit(batches' # batches, deliveryPeople' # deliveryPeople)
    /\ UNCHANGED <<pc, description, isGenerating, inFlight>>

\* ======================================================== the application
\* The handlers of the rendered application.  The page is used only while
\* no modal covers it; the buttons and the form of a shown modal are used
\* also when another modal lies over it (the modals trap no focus, so the
\* keyboard reaches them).  The clock is read by Date.now(): it never runs
\* backwards and may stand still between two reads.  The forms leave the
\* fields of the normal category at their default value "0", and the new
\* batch form is filled in completely.

\* Sidebar: navigate(item.view).
Navigate ==
    \E newView \in navItems :
        /\ ~OverlayShown
        /\ view' = newView
        /\ selectedPerson' = <<>>
        /\ UNCHANGED <<now, zodOmit, deliveryPeople, batches, modalState,
                       selectedBatch, confirmModalProps, errors>>
        /\ AfterCommit

\* AddDeliveryPersonView.handleSubmit, then onAdd: addDeliveryPerson and
\* navigate(View.DeliveryPeople).
AddDeliveryPersonSubmit ==
    \E name \in NameInputs, t \in now..MaxClock :
        /\ ~OverlayShown
        /\ view = "AddDeliveryPerson"
        /\ Len(deliveryPeople) < MaxCouriers
        /\ IF name = ""
           THEN UNCHANGED <<now, deliveryPeople, view, selectedPerson>>
           ELSE /\ now' = t
                /\ deliveryPeople' = addDeliveryPerson(deliveryPeople, [name |-> name], t)
                /\ view' = "DeliveryPeople"
                /\ selectedPerson' = <<>>
        /\ UNCHANGED <<zodOmit, batches, modalState, selectedBatch,
                       confirmModalProps, errors>>
        /\ AfterCommit

\* DeliveryPeopleView.onSelectPerson: setSelectedPerson(p), then navigate,
\* whose setSelectedPerson(null) is the later update of the same render.
OnSelectPerson ==
    \E i \in 1..Len(deliveryPeople) :
        /\ ~OverlayShown
        /\ view = "DeliveryPeople"
        /\ LET afterSelect == <<deliveryPeople[i]>>
               afterNavigate == IF afterSelect = <<>> THEN afterSelect ELSE <<>>
           IN selectedPerson' = afterNavigate
        /\ view' = "DeliveryPersonProfile"
        /\ UNCHANGED <<now, zodOmit, deliveryPeople, batches, modalState,
                       selectedBatch, confirmModalProps, errors>>
        /\ AfterCommit

\* The floating button: openModal('newBatch').
OpenNewBatch ==
    /\ ~OverlayShown
    /\ modalState' = openModal(modalState, "newBatch")
    /\ errors' = errorsAfter(errors, modalState', selectedBatch)
    /\ UNCHANGED <<now, zodOmit, deliveryPeople, batches, view, selectedBatch,
                   selectedPerson, confirmModalProps>>
    /\ AfterCommit

\* NewBatchModal.handleSubmit.
NewBatchSubmit ==
    \E data \in NewBatchForms(deliveryPeople, 1..MaxInitial, {0}), t \in now..MaxClock :
        /\ Shown("newBatch")
        /\ data.deliveryPersonId # ""
        /\ Len(batches) < MaxBatches
        /\ LET errs == newBatchSchemaErrors(data) IN
           IF errs # {}
           THEN /\ errors' = [errors EXCEPT !.newBatch = errs]
                /\ UNCHANGED <<now, batches, modalState>>
           ELSE /\ now' = t
                /\ batches' = addBatch(batches, Spread(data, [status |-> "pending"]), t)
                /\ modalState' = closeModalState(modalState, "newBatch")
                /\ UNCHANGED errors
        /\ UNCHANGED <<zodOmit, deliveryPeople, view, selectedBatch,
                       selectedPerson, confirmModalProps>>
        /\ AfterCommit

\* DashboardView / ArchiveView onBatchClick on a card.  The time test that
\* splits the cards between the two views is left out here: the archive
\* lists finalized batches only.
OnBatchClick ==
    \E i \in 1..Len(batches) :
        LET b == batches[i] IN
        /\ ~OverlayShown
        /\ \/ /\ view = "Dashboard"
              /\ modalState' = openModal(modalState,
                     IF b.status = "pending" THEN "finalizeBatch" ELSE "batchDetails")
           \/ /\ view = "Archive"
              /\ b.status = "finalized" /\ "returnDatetime" \in DOMAIN b
              /\ modalState' = openModal(modalState, "batchDetails")
        /\ selectedBatch' = <<b>>
        /\ errors' = errorsAfter(errors, modalState', selectedBatch')
        /\ UNCHANGED <<now, zodOmit, deliveryPeople, batches, view,
                       selectedPerson, confirmModalProps>>
        /\ AfterCommit

\* The close button or the backdrop of a shown modal: closeModal(name).
CloseModal ==
    \E m \in ModalNames :
        /\ Shown(m)
        /\ modalState' = closeModalState(modalState, m)
        /\ selectedBatch' = closeModalBatch(selectedBatch, m)
        /\ selectedPerson' = closeModalPerson(selectedPerson, selectedPerson, m)
        /\ confirmModalProps' = IF m = "confirm" THEN NoConfirm ELSE confirmModalProps
        /\ errors' = errorsAfter(errors, modalState', selectedBatch')
        /\ UNCHANGED <<now, zodOmit, deliveryPeople, batches, view>>
        /\ AfterCommit

\* FinalizeBatchModal.handleSubmit on the selected batch.
FinalizeSubmit ==
    \E data \in FinalizeForms(ReturnInputs \ {<<>>}, CountInputs, {0}) :
        /\ Shown("finalizeBatch")
        /\ LET batch == selectedBatch[1]
               errs == finalizeBatchSchemaErrors(batch, data) IN
           IF errs # {}
           THEN /\ errors' = [errors EXCEPT !.finalizeBatch = errs]
                /\ UNCHANGED <<batches, modalState, selectedBatch>>
           ELSE /\ batches' = updateBatch(batches, finalizedBatch(batch, data))
                /\ modalState' = closeModalState(modalState, "finalizeBatch")
                /\ selectedBatch' = closeModalBatch(selectedBatch, "finalizeBatch")
                /\ errors' = errorsAfter(errors, modalState', selectedBatch')
        /\ UNCHANGED <<now, zodOmit, deliveryPeople, view, selectedPerson,
                       confirmModalProps>>
        /\ AfterCommit

\* BatchDetailsModal "Editar": closeModal('batchDetails'); openModal('editBatch').
DetailsEdit ==
    /\ Shown("batchDetails")
    /\ modalState' = openModal(closeModalState(modalState, "batchDetails"), "editBatch")
    /\ selectedBatch' = closeModalBatch(selectedBatch, "batchDetails")
    /\ errors' = errorsAfter(errors, modalState', selectedBatch')
    /\ UNCHANGED <<now, zodOmit, deliveryPeople, batches, view, selectedPerson,
                   confirmModalProps>>
    /\ AfterCommit

\* BatchDetailsModal "Excluir": onDelete(batch.id) opens the confirmation of
\* deleteBatch(id); then onClose().
DetailsDelete ==
    /\ Shown("batchDetails")
    /\ confirmModalProps' = [kind |-> "deleteBatch", id |-> selectedBatch[1].id]
    /\ modalState' = closeModalState(openModal(modalState, "confirm"), "batchDetails")
    /\ selectedBatch' = closeModalBatch(selectedBatch, "batchDetails")
    /\ errors' = errorsAfter(errors, modalState', selectedBatch')
    /\ UNCHANGED <<now, zodOmit, deliveryPeople, batches, view, selectedPerson>>
    /\ AfterCommit

\* ConfirmationModal "Sim": onConfirm(); onClose().  The closure stays in
\* confirmModalProps, where nothing reads it before the next
\* openConfirmation replaces it: the model forgets it.
ConfirmYes ==
    /\ Shown("confirm")
    /\ IF confirmModalProps.kind = "deleteBatch"
       THEN /\ batches' = deleteBatch(batches, confirmModalProps.id)
            /\ UNCHANGED <<deliveryPeople, view, selectedPerson>>
       ELSE IF confirmModalProps.kind = "deleteDeliveryPerson"
       THEN /\ deliveryPeople' = deleteDeliveryPersonPeople(deliveryPeople, confirmModalProps.id)
            /\ batches' = deleteDeliveryPersonBatches(batches, confirmModalProps.id)
            /\ view' = "Dashboard"
            /\ selectedPerson' = <<>>
       ELSE UNCHANGED <<deliveryPeople, batches, view, selectedPerson>>
    /\ modalState' = closeModalState(modalState, "confirm")
    /\ confirmModalProps' = NoConfirm
    /\ errors' = errorsAfter(errors, modalState', selectedBatch)
    /\ UNCHANGED <<now, zodOmit, selectedBatch>>
    /\ AfterCommit

\* EditBatchModal.handleSubmit on the selected batch.
EditSubmitWith(data) ==
    /\ Shown("editBatch")
    /\ IF zodOmit = "throws"
       THEN UNCHANGED <<batches, modalState, selectedBatch, errors>>
       ELSE LET batch == selectedBatch[1]
                errs == editBatchSchemaErrors(batch, data) IN
            IF errs # {}
            THEN /\ errors' = [errors EXCEPT !.editBatch = errs]
                 /\ UNCHANGED <<batches, modalState, selectedBatch>>
            ELSE /\ batches' = updateBatch(batches, editedBatch(batch, data))
                 /\ modalState' = closeModalState(modalState, "editBatch")
                 /\ selectedBatch' = closeModalBatch(selectedBatch, "editBatch")
                 /\ errors' = errorsAfter(errors, modalState', selectedBatch')
    /\ UNCHANGED <<now, zodOmit, deliveryPeople, view, selectedPerson,
                   confirmModalProps>>
    /\ AfterCommit

EditSubmit == \E data \in CountForms(CountInputs, {0}) : EditSubmitWith(data)

Next ==
    \/ Navigate
    \/ AddDeliveryPersonSubmit
    \/ OnSelectPerson
    \/ OpenNewBatch
    \/ NewBatchSubmit
    \/ OnBatchClick
    \/ CloseModal
    \/ FinalizeSubmit
    \/ DetailsEdit
    \/ DetailsDelete
    \/ ConfirmYes
    \/ EditSubmit

Spec == Init /\ [][Next]_vars

\* ================================================== the batch controller
\* The submit handlers and data handlers of the batch life cycle, each run
\* as the modal that owns it runs it, on any batch of the store (the
\* application can show the finalize form and the edit form on a batch of
\* either status).  A form is opened, which clears its errors, and
\* submitted; the forms report at most MaxInitial items in each category.
\* The courier's name plays no part here: one name is entered.

CtlAddPerson ==
    \E name \in {"ana"}, t \in now..MaxClock :
        /\ Len(deliveryPeople) < MaxCouriers
        /\ now' = t
        /\ deliveryPeople' = addDeliveryPerson(deliveryPeople, [name |-> name], t)
        /\ errors' = NoErrors
        /\ UNCHANGED <<zodOmit, batches, view, modalState, selectedBatch,
                       selectedPerson, confirmModalProps>>
        /\ AfterCommit

\* NewBatchModal.handleSubmit.
CtlNewBatchWith(data, t) ==
    /\ Len(batches) < MaxBatches
    /\ LET errs == newBatchSchemaErrors(data) IN
       IF errs # {}
       THEN /\ errors' = [NoErrors EXCEPT !.newBatch = errs]
            /\ UNCHANGED <<now, batches>>
       ELSE /\ now' = t
            /\ batches' = addBatch(batches, Spread(data, [status |-> "pending"]), t)
            /\ errors' = NoErrors
    /\ UNCHANGED <<zodOmit, deliveryPeople, view, modalState, selectedBatch,
                   selectedPerson, confirmModalProps>>
    /\ AfterCommit

CtlNewBatch ==
    \E data \in NewBatchForms(deliveryPeople, InitialInputs, InitialInputs),
       t \in now..MaxClock : CtlNewBatchWith(data, t)

\* FinalizeBatchModal.handleSubmit on a batch of the store.
CtlFinalize ==
    \E i \in 1..Len(batches), c \in CtlCountForms :
        LET batch == batches[i]
            data == Spread(c, [returnDatetime |-> <<"local", 1>>])
            errs == finalizeBatchSchemaErrors(batch, data) IN
        /\ IF errs # {}
           THEN /\ errors' = [NoErrors EXCEPT !.finalizeBatch = errs]
                /\ UNCHANGED batches
           ELSE /\ batches' = updateBatch(batches, finalizedBatch(batch, data))
                /\ errors' = NoErrors
        /\ UNCHANGED <<now, zodOmit, deliveryPeople, view, modalState,
                       selectedBatch, selectedPerson, confirmModalProps>>
        /\ AfterCommit

\* EditBatchModal.handleSubmit on a batch of the store.
CtlEdit ==
    \E i \in 1..Len(batches), data \in CtlCountForms :
        LET batch == batches[i]
            errs == editBatchSchemaErrors(batch, data) IN
        /\ IF zodOmit = "throws"
           THEN /\ errors' = NoErrors
                /\ UNCHANGED batches
           ELSE IF errs # {}
           THEN /\ errors' = [NoErrors EXCEPT !.editBatch = errs]
                /\ UNCHANGED batches
           ELSE /\ batches' = updateBatch(batches, editedBatch(batch, data))
                /\ errors' = NoErrors
        /\ UNCHANGED <<now, zodOmit, deliveryPeople, view, modalState,
                       selectedBatch, selectedPerson, confirmModalProps>>
        /\ AfterCommit

\* The confirmed "Excluir" of the details modal: deleteBatch(batch.id).
CtlDeleteBatch ==
    \E i \in 1..Len(batches) :
        /\ batches' = deleteBatch(batches, batches[i].id)
        /\ errors' = NoErrors
        /\ UNCHANGED <<now, zodOmit, deliveryPeople, view, modalState,
                       selectedBatch, selectedPerson, confirmModalProps>>
        /\ AfterCommit

NextCtl ==
    \/ CtlAddPerson
    \/ CtlNewBatch
    \/ CtlFinalize
    \/ CtlEdit
    \/ CtlDeleteBatch

SpecCtl == Init /\ [][NextCtl]_vars

\* ========================================================== the roster
\* The data handlers of the people, run with the arguments the profile view
\* and the edit modal hand them: the person shown and the submitted name.
\* Batches are created with the normal fields at their default, and
\* finalized and deleted as above.

RosterAdd ==
    \E name \in Names, t \in now..MaxClock :
        /\ Len(deliveryPeople) < MaxPeople
        /\ now' = t
        /\ deliveryPeople' = addDeliveryPerson(deliveryPeople, [name |-> name], t)
        /\ errors' = NoErrors
        /\ UNCHANGED <<zodOmit, batches, view, modalState, selectedBatch,
                       selectedPerson, confirmModalProps>>
        /\ AfterCommit

\* EditDeliveryPersonModal.handleSubmit: onEdit({...person, ...data}), whose
\* setSelectedPerson(updatedPerson) is followed by that of onClose().
RosterUpdate ==
    \E i \in 1..Len(deliveryPeople), name \in NameInputs :
        /\ IF name = ""
           THEN UNCHANGED <<deliveryPeople, selectedPerson>>
           ELSE /\ deliveryPeople' =
                     updateDeliveryPerson(deliveryPeople,
                                          Spread(deliveryPeople[i], [name |-> name]))
                /\ selectedPerson' = closeModalPerson(
                     <<Spread(deliveryPeople[i], [name |-> name])>>,
                     <<deliveryPeople[i]>>, "editPerson")
        /\ errors' = NoErrors
        /\ UNCHANGED <<now, zodOmit, batches, view, modalState, selectedBatch,
                       confirmModalProps>>
        /\ AfterCommit

\* The confirmed "Excluir Entregador": deleteDeliveryPerson(person.id).
\* openConfirmation leaves the closure in confirmModalProps.
RosterDeleteOf(personId) ==
    /\ confirmModalProps' = [kind |-> "deleteDeliveryPerson", id |-> personId]
    /\ deliveryPeople' = deleteDeliveryPersonPeople(deliveryPeople, personId)
    /\ batches' = deleteDeliveryPersonBatches(batches, personId)
    /\ view' = "Dashboard"
    /\ selectedPerson' = <<>>
    /\ errors' = NoErrors
    /\ UNCHANGED <<now, zodOmit, modalState, selectedBatch>>
    /\ AfterCommit

RosterDelete ==
    \E i \in 1..Len(deliveryPeople) : RosterDeleteOf(deliveryPeople[i].id)

RosterNewBatch ==
    \E data \in NewBatchForms(deliveryPeople, InitialInputs, {0}), t \in now..MaxClock :
        /\ Len(batches) < MaxBatches
        /\ LET errs == newBatchSchemaErrors(data) IN
           IF errs # {}
           THEN /\ errors' = [NoErrors EXCEPT !.newBatch = errs]
                /\ UNCHANGED <<now, batches>>
           ELSE /\ now' = t
                /\ batches' = addBatch(batches, Spread(data, [status |-> "pending"]), t)
                /\ errors' = NoErrors
        /\ UNCHANGED <<zodOmit, deliveryPeople, view, modalState, selectedBatch,
                       selectedPerson, confirmModalProps>>
        /\ AfterCommit

RosterFinalize ==
    \E i \in 1..Len(batches),
       data \in FinalizeForms({<<"local", 1>>}, CountInputs, {0}) :
        LET batch == batches[i]
            errs == finalizeBatchSchemaErrors(batch, data) IN
        /\ batch.status = "pending"
        /\ IF errs # {}
           THEN /\ errors' = [NoErrors EXCEPT !.finalizeBatch = errs]
                /\ UNCHANGED batches
           ELSE /\ batches' = updateBatch(batches, finalizedBatch(batch, data))
                /\ errors' = NoErrors
        /\ UNCHANGED <<now, zodOmit, deliveryPeople, view, modalState,
                       selectedBatch, selectedPerson, confirmModalProps>>
        /\ AfterCommit

RosterDeleteBatch ==
    \E i \in 1..Len(batches) :
        /\ confirmModalProps' = [kind |-> "deleteBatch", id |-> batches[i].id]
        /\ batches' = deleteBatch(batches, batches[i].id)
        /\ errors' = NoErrors
        /\ UNCHANGED <<now, zodOmit, deliveryPeople, view, modalState,
                       selectedBatch, selectedPerson>>
        /\ AfterCommit

NextRoster ==
    \/ RosterAdd
    \/ RosterUpdate
    \/ RosterDelete
    \/ RosterNewBatch
    \/ RosterFinalize
    \/ RosterDeleteBatch

SpecRoster == Init /\ [][NextRoster]_vars

\* ============================================================ the views
\* The store under a clock that runs past the archival delay, and the lists
\* the dashboard and the archive show.  One courier; the batches carry one
\* PGFN item, reported delivered.  The clock is read where the code reads
\* it; between two handlers it may jump to any later reading.
ArchiveDelayMs == ARCHIVE_DELAY_DAYS * MsPerDay

ClockReadings ==
    (0..MaxClock) \cup {ArchiveDelayMs + d : d \in 0..(MaxClock + 1)}

\* The instants the datetime-local fields take.
ViewInstants == {<<"local", t>> : t \in 0..MaxClock}

ViewClock ==
    \E t \in ClockReadings :
        /\ t > now
        /\ now' = t
        /\ UNCHANGED <<zodOmit, deliveryPeople, batches, view, modalState,
                       selectedBatch, selectedPerson, confirmModalProps, errors,
                       dashboardBatches, archivedBatches, storage, pc,
                       description, isGenerating, inFlight>>

\* Sidebar: navigate(item.view) to one of the two lists; the render that
\* follows reads the cached lists.
ViewNavigate ==
    \E newView \in {"Dashboard", "Archive"} :
        /\ view' = newView
        /\ selectedPerson' = <<>>
        /\ UNCHANGED <<now, zodOmit, deliveryPeople, batches, modalState,
                       selectedBatch, confirmModalProps, errors, pc,
                       description, isGenerating, inFlight>>
        /\ Commit(FALSE, FALSE)

ViewAddPerson ==
    /\ Len(deliveryPeople) < MaxCouriers
    /\ deliveryPeople' = addDeliveryPerson(deliveryPeople, [name |-> "ana"], now)
    /\ UNCHANGED <<now, zodOmit, batches, view, modalState, selectedBatch,
                   selectedPerson, confirmModalProps, errors, pc,
                   description, isGenerating, inFlight>>
    /\ Commit(FALSE, TRUE)

\* NewBatchModal.handleSubmit with a departure of the form's choosing.
ViewNewBatch ==
    \E form \in NewBatchForms(deliveryPeople, {1}, {0}), departure \in ViewInstants :
        LET data == [form EXCEPT !.departureDatetime = departure] IN
        /\ Len(batches) < MaxBatches
        /\ newBatchSchemaErrors(data) = {}
        /\ batches' = addBatch(batches, Spread(data, [status |-> "pending"]), now)
        /\ UNCHANGED <<now, zodOmit, deliveryPeople, view, modalState,
                       selectedBatch, selectedPerson, confirmModalProps, errors,
                       pc, description, isGenerating, inFlight>>
        /\ Commit(TRUE, FALSE)

\* FinalizeBatchModal.handleSubmit on a pending card of the dashboard.
ViewFinalize ==
    \E i \in 1..Len(dashboardBatches), returned \in ViewInstants :
        LET batch == dashboardBatches[i]
            data == [pgfnDelivered |-> 1, pgfnReturned |-> 0, pgfnAbsent |-> 0,
                     normalDelivered |-> 0, normalReturned |-> 0,
                     normalAbsent |-> 0, returnDatetime |-> returned] IN
        /\ view = "Dashboard"
        /\ batch.status = "pending"
        /\ finalizeBatchSchemaErrors(batch, data) = {}
        /\ batches' = updateBatch(batches, finalizedBatch(batch, data))
        /\ UNCHANGED <<now, zodOmit, deliveryPeople, view, modalState,
                       selectedBatch, selectedPerson, confirmModalProps, errors,
                       pc, description, isGenerating, inFlight>>
        /\ Commit(TRUE, FALSE)

\* The confirmed "Excluir" on a card of the list shown.
ViewDeleteBatch ==
    \E b \in {dashboardBatches[i] : i \in 1..Len(dashboardBatches)}
             \cup {archivedBatches[i] : i \in 1..Len(archivedBatches)} :
        /\ b \in (IF view = "Dashboard"
                  THEN {dashboardBatches[i] : i \in 1..Len(dashboardBatches)}
                  ELSE {archivedBatches[i] : i \in 1..Len(archivedBatches)})
        /\ batches' = deleteBatch(batches, b.id)
        /\ UNCHANGED <<now, zodOmit, deliveryPeople, view, modalState,
                       selectedBatch, selectedPerson, confirmModalProps, errors,
                       pc, description, isGenerating, inFlight>>
        /\ Commit(TRUE, FALSE)

NextView ==
    \/ ViewClock
    \/ ViewNavigate
    \/ ViewAddPerson
    \/ ViewNewBatch
    \/ ViewFinalize
    \/ ViewDeleteBatch

SpecView == Init /\ [][NextView]_vars

\* ============================================================ the calls
\* The data handlers called with any argument, as a caller that holds an id
\* from an earlier render may call them: the ids the clock can have given,
\* and one it has not.
CallIds == {NewId(t) : t \in 0..(MaxClock + 1)}

Ids(list) == {list[i].id : i \in 1..Len(list)}

CallAddDeliveryPerson ==
    \E name \in Names, t \in now..MaxClock :
        /\ Len(deliveryPeople) < MaxPeople
        /\ now' = t
        /\ deliveryPeople' = addDeliveryPerson(deliveryPeople, [name |-> name], t)
        /\ UNCHANGED <<zodOmit, batches, view, modalState, selectedBatch,
                       selectedPerson, confirmModalProps, errors, pc,
                       description, isGenerating, inFlight>>
        /\ Commit(FALSE, TRUE)

CallUpdateDeliveryPersonWith(updatedPerson) ==
    /\ deliveryPeople' = updateDeliveryPerson(deliveryPeople, updatedPerson)
    /\ selectedPerson' = <<updatedPerson>>
    /\ UNCHANGED <<now, zodOmit, batches, view, modalState, selectedBatch,
                   confirmModalProps, errors, pc, description, isGenerating,
                   inFlight>>
    /\ Commit(FALSE, TRUE)

CallUpdateDeliveryPerson ==
    \E updatedPerson \in [id : CallIds, name : RenameInputs] :
        CallUpdateDeliveryPersonWith(updatedPerson)

CallDeleteDeliveryPersonOf(personId) ==
    /\ deliveryPeople' = deleteDeliveryPersonPeople(deliveryPeople, personId)
    /\ batches' = deleteDeliveryPersonBatches(batches, personId)
    /\ view' = "Dashboard"
    /\ selectedPerson' = <<>>
    /\ UNCHANGED <<now, zodOmit, modalState, selectedBatch, confirmModalProps,
                   errors, pc, description, isGenerating, inFlight>>
    /\ Commit(TRUE, TRUE)

CallDeleteDeliveryPerson ==
    \E personId \in CallIds : CallDeleteDeliveryPersonOf(personId)

CallAddBatch ==
    \E data \in NewBatchForms(deliveryPeople, {1}, {0}), t \in now..MaxClock :
        /\ Len(batches) < MaxBatches
        /\ data.deliveryPersonId # ""
        /\ now' = t
        /\ batches' = addBatch(batches, Spread(data, [status |-> "pending"]), t)
        /\ UNCHANGED <<zodOmit, deliveryPeople, view, modalState, selectedBatch,
                       selectedPerson, confirmModalProps, errors, pc,
                       description, isGenerating, inFlight>>
        /\ Commit(TRUE, FALSE)

CallUpdateBatchWith(updatedBatch) ==
    /\ batches' = updateBatch(batches, updatedBatch)
    /\ UNCHANGED <<now, zodOmit, deliveryPeople, view, modalState, selectedBatch,
                   selectedPerson, confirmModalProps, errors, pc, description,
                   isGenerating, inFlight>>
    /\ Commit(TRUE, FALSE)

\* The batches handed to updateBatch: a pending batch of two PGFN items.
CallBatches ==
    {Spread(data, [status |-> "pending", id |-> id]) :
        data \in {d \in NewBatchForms(deliveryPeople, {2}, {0}) :
                     d.deliveryPersonId # ""},
        id \in CallIds}

CallUpdateBatch ==
    \E updatedBatch \in CallBatches : CallUpdateBatchWith(updatedBatch)

CallDeleteBatchOf(batchId) ==
    /\ batches' = deleteBatch(batches, batchId)
    /\ UNCHANGED <<now, zodOmit, deliveryPeople, view, modalState, selectedBatch,
                   selectedPerson, confirmModalProps, errors, pc, description,
                   isGenerating, inFlight>>
    /\ Commit(TRUE, FALSE)

CallDeleteBatch ==
    \E batchId \in CallIds : CallDeleteBatchOf(batchId)

NextCalls ==
    \/ CallAddDeliveryPerson
    \/ CallUpdateDeliveryPerson
    \/ CallDeleteDeliveryPerson
    \/ CallAddBatch
    \/ CallUpdateBatch
    \/ CallDeleteBatch

SpecCalls == Init /\ [][NextCalls]_vars

\* ============================================================ the storage
\* The App from its mount, over a storage that may hold anything under the
\* key and may refuse any write.  One courier, batches of one PGFN item.
aPerson == [id |-> NewId(0), name |-> "ana"]

aBatch ==
    [id |-> NewId(0), deliveryPersonId |-> NewId(0), pgfnInitial |-> 1,
     normalInitial |-> 0, departureDatetime |-> <<"local", 1>>,
     estimatedReturnDate |-> <<"date", 2>>, description |-> "",
     status |-> "pending"]

\* The entries an object of the storage may have under a key: none, a falsy
\* value, a number that is not 0, an array.
StoredEntries(lists) ==
    {JsonEntry(kind, <<>>) : kind \in {"missing", "falsy", "number"}}
        \cup {JsonEntry("array", list) : list \in lists}

NoEntry == JsonEntry("missing", <<>>)

StoredItems ==
    {<<>>, <<"text">>,
     <<"json", JsonValue("null", NoEntry, NoEntry)>>,
     <<"json", JsonValue("number", NoEntry, NoEntry)>>}
        \cup {<<"json", JsonValue("object", b, p)>> :
                 b \in StoredEntries({<<>>, <<aBatch>>}),
                 p \in StoredEntries({<<>>, <<aPerson>>})}

InitStore ==
    /\ now = 0
    /\ zodOmit \in ZodOmitOutcomes
    /\ deliveryPeople = <<>>
    /\ batches = <<>>
    /\ view = "Dashboard"
    /\ modalState = [m \in ModalNames |-> FALSE]
    /\ selectedBatch = <<>>
    /\ selectedPerson = <<>>
    /\ confirmModalProps = NoConfirm
    /\ errors = NoErrors
    /\ dashboardBatches = <<>>
    /\ archivedBatches = <<>>
    /\ storage \in StoredItems
    /\ pc = "mount"
    /\ description = ""
    /\ isGenerating = FALSE
    /\ inFlight = "none"

\* The mount: the first render, the load effect, the save effect of the
\* first render (on the empty collections), then, if the load effect called
\* the setters, the render of what it set and the save effect of that
\* render.  A render over a collection that is no array throws at its
\* forEach; nothing above the App catches it and React unmounts the tree.
StoreMountWith(ok1, ok2) ==
    LET loaded == loadEffect(storage)
        first == saveEffect(<<>>, <<>>, storage, ok1) IN
    /\ pc = "mount"
    /\ IF ~loaded.set
       THEN /\ pc' = "running"
            /\ storage' = first
            /\ UNCHANGED <<batches, deliveryPeople, dashboardBatches,
                           archivedBatches>>
       ELSE IF loaded.batches.kind = "array" /\ loaded.deliveryPeople.kind = "array"
       THEN /\ pc' = "running"
            /\ batches' = loaded.batches.items
            /\ deliveryPeople' = loaded.deliveryPeople.items
            /\ dashboardBatches' = Partition(batches', now).dashboardBatches
            /\ archivedBatches' = Partition(batches', now).archivedBatches
            /\ storage' = saveEffect(batches', deliveryPeople', first, ok2)
       ELSE /\ pc' = "crashed"
            /\ storage' = first
            /\ UNCHANGED <<batches, deliveryPeople, dashboardBatches,
                           archivedBatches>>
    /\ UNCHANGED <<now, zodOmit, view, modalState, selectedBatch,
                   selectedPerson, confirmModalProps, errors, description,
                   isGenerating, inFlight>>

StoreMount == \E ok1, ok2 \in BOOLEAN : StoreMountWith(ok1, ok2)

StoreAddPersonWith(ok) ==
    \E t \in now..MaxClock :
        /\ pc = "running"
        /\ Len(deliveryPeople) < MaxCouriers
        /\ now' = t
        /\ deliveryPeople' = addDeliveryPerson(deliveryPeople, [name |-> "ana"], t)
        /\ UNCHANGED <<zodOmit, batches, view, modalState, selectedBatch,
                       selectedPerson, confirmModalProps, errors, pc,
                       description, isGenerating, inFlight>>
        /\ CommitWith(FALSE, TRUE, ok)

StoreAddPerson == \E ok \in BOOLEAN : StoreAddPersonWith(ok)

StoreDeletePersonWith(ok) ==
    \E i \in 1..Len(deliveryPeople) :
        /\ pc = "running"
        /\ deliveryPeople' =
               deleteDeliveryPersonPeople(deliveryPeople, deliveryPeople[i].id)
        /\ batches' = deleteDeliveryPersonBatches(batches, deliveryPeople[i].id)
        /\ view' = "Dashboard"
        /\ selectedPerson' = <<>>
        /\ UNCHANGED <<now, zodOmit, modalState, selectedBatch,
                       confirmModalProps, errors, pc, description,
                       isGenerating, inFlight>>
        /\ CommitWith(TRUE, TRUE, ok)

StoreDeletePerson == \E ok \in BOOLEAN : StoreDeletePersonWith(ok)

StoreNewBatchWith(ok) ==
    \E data \in NewBatchForms(deliveryPeople, {1}, {0}), t \in now..MaxClock :
        /\ pc = "running"
        /\ Len(batches) < MaxBatches
        /\ newBatchSchemaErrors(data) = {}
        /\ now' = t
        /\ batches' = addBatch(batches, Spread(data, [status |-> "pending"]), t)
        /\ UNCHANGED <<zodOmit, deliveryPeople, view, modalState, selectedBatch,
                       selectedPerson, confirmModalProps, errors, pc,
                       description, isGenerating, inFlight>>
        /\ CommitWith(TRUE, FALSE, ok)

StoreNewBatch == \E ok \in BOOLEAN : StoreNewBatchWith(ok)

StoreDeleteBatchWith(ok) ==
    \E i \in 1..Len(batches) :
        /\ pc = "running"
        /\ batches' = deleteBatch(batches, batches[i].id)
        /\ UNCHANGED <<now, zodOmit, deliveryPeople, view, modalState,
                       selectedBatch, selectedPerson, confirmModalProps, errors,
                       pc, description, isGenerating, inFlight>>
        /\ CommitWith(TRUE, FALSE, ok)

StoreDeleteBatch == \E ok \in BOOLEAN : StoreDeleteBatchWith(ok)

\* The page is loaded again: the state of the App is that of its
\* construction, the storage and the clock are what they were.
StoreReload ==
    /\ pc # "mount"
    /\ pc' = "mount"
    /\ deliveryPeople' = <<>>
    /\ batches' = <<>>
    /\ view' = "Dashboard"
    /\ selectedPerson' = <<>>
    /\ dashboardBatches' = <<>>
    /\ archivedBatches' = <<>>
    /\ UNCHANGED <<now, zodOmit, modalState, selectedBatch, confirmModalProps,
                   errors, storage, description, isGenerating, inFlight>>

NextStore ==
    \/ StoreMount
    \/ StoreAddPerson
    \/ StoreDeletePerson
    \/ StoreNewBatch
    \/ StoreDeleteBatch
    \/ StoreReload

SpecStore == InitStore /\ [][NextStore]_vars

\* ========================================================== the assistant
\* The new-batch form and its "Gerar Descrição com IA" button.  The
\* NewBatchModal is mounted as long as the App is: its description and
\* isGenerating outlive the closing of the form.  inFlight is "none", or the
\* call that awaits its reply: "current" while the form that issued it is
\* open, "stale" once that form was submitted or closed.
Replies == {"generated", "Erro ao gerar descrição. Por favor, tente novamente."}

Typed == {"typed"}

Outlived(call) == IF call = "current" THEN "stale" ELSE call

AssistAddPerson ==
    /\ ~modalState.newBatch
    /\ Len(deliveryPeople) < MaxCouriers
    /\ deliveryPeople' = addDeliveryPerson(deliveryPeople, [name |-> "ana"], now)
    /\ UNCHANGED <<now, zodOmit, batches, view, modalState, selectedBatch,
                   selectedPerson, confirmModalProps, errors, pc,
                   description, isGenerating, inFlight>>
    /\ Commit(FALSE, TRUE)

\* The round button: openModal('newBatch'); the effect on isOpen empties
\* the description and the errors.
AssistOpen ==
    /\ ~modalState.newBatch
    /\ modalState' = openModal(modalState, "newBatch")
    /\ description' = ""
    /\ errors' = [errors EXCEPT !.newBatch = {}]
    /\ UNCHANGED <<now, zodOmit, deliveryPeople, batches, view, selectedBatch,
                   selectedPerson, confirmModalProps, pc, isGenerating, inFlight>>
    /\ Commit(FALSE, FALSE)

\* The textarea: onChange.
AssistType ==
    \E text \in Typed :
        /\ modalState.newBatch
        /\ description' = text
        /\ UNCHANGED <<now, zodOmit, deliveryPeople, batches, view, modalState,
                       selectedBatch, selectedPerson, confirmModalProps, errors,
                       pc, isGenerating, inFlight>>
        /\ Commit(FALSE, FALSE)

\* handleGenerateDescription up to its await.
AssistGenerate ==
    \E selected \in SelectOptions(deliveryPeople) :
        /\ modalState.newBatch
        /\ ~isGenerating
        /\ IF selected = ""
           THEN /\ errors' = [errors EXCEPT !.newBatch = {"deliveryPersonId"}]
                /\ UNCHANGED <<isGenerating, inFlight>>
           ELSE /\ errors' = [errors EXCEPT !.newBatch = {}]
                /\ isGenerating' = TRUE
                /\ inFlight' = "current"
        /\ UNCHANGED <<now, zodOmit, deliveryPeople, batches, view, modalState,
                       selectedBatch, selectedPerson, confirmModalProps, pc,
                       description>>
        /\ Commit(FALSE, FALSE)

\* generateBatchDescription settles, with the text of the model or with the
\* text of its catch, and handleGenerateDescription resumes.
AssistReply ==
    \E text \in Replies :
        /\ inFlight # "none"
        /\ description' = text
        /\ isGenerating' = FALSE
        /\ inFlight' = "none"
        /\ UNCHANGED <<now, zodOmit, deliveryPeople, batches, view, modalState,
                       selectedBatch, selectedPerson, confirmModalProps, errors,
                       pc>>
        /\ Commit(FALSE, FALSE)

\* NewBatchModal.handleSubmit, with the description of the state.
AssistSubmit ==
    \E form \in NewBatchForms(deliveryPeople, 0..1, {0}) :
        LET data == [form EXCEPT !.description = description]
            errs == newBatchSchemaErrors(data) IN
        /\ modalState.newBatch
        /\ Len(batches) < MaxBatches
        /\ UNCHANGED <<now, zodOmit, deliveryPeople, view, selectedBatch,
                       selectedPerson, confirmModalProps, pc, description,
                       isGenerating>>
        /\ IF errs # {}
           THEN /\ errors' = [errors EXCEPT !.newBatch = errs]
                /\ UNCHANGED <<batches, modalState, inFlight>>
                /\ Commit(FALSE, FALSE)
           ELSE /\ batches' = addBatch(batches, Spread(data, [status |-> "pending"]), now)
                /\ modalState' = closeModalState(modalState, "newBatch")
                /\ inFlight' = Outlived(inFlight)
                /\ UNCHANGED errors
                /\ Commit(TRUE, FALSE)

\* The cross or the backdrop of the Modal: closeModal('newBatch').
AssistClose ==
    /\ modalState.newBatch
    /\ modalState' = closeModalState(modalState, "newBatch")
    /\ inFlight' = Outlived(inFlight)
    /\ UNCHANGED <<now, zodOmit, deliveryPeople, batches, view, selectedBatch,
                   selectedPerson, confirmModalProps, errors, pc, description,
                   isGenerating>>
    /\ Commit(FALSE, FALSE)

NextAssist ==
    \/ AssistAddPerson
    \/ AssistOpen
    \/ AssistType
    \/ AssistGenerate
    \/ AssistReply
    \/ AssistSubmit
    \/ AssistClose

SpecAssist == Init /\ [][NextAssist]_vars

\* ============================================================ the mount
\* The mount of the App over a well-formed stored item, effect by effect, in
\* the order React runs them: the effects of a commit in the order of their
\* declaration, the load effect before the save effect, and the state they
\* set rendered after the last of them.  Rendered under StrictMode, as the
\* development build of a React application is, the App has the effects of
\* its mount run a second time before that render; otherwise once.  The
\* collections hold the state as the setters leave it; the closure of the
\* effects of the mount is that of the first render, whose collections are
\* empty.  pc is "mount", "loaded", "saved", "loadedAgain", "savedAgain",
\* then "running".
InitMount ==
    /\ InitStore
    /\ ~(storage = <<>> \/ storage = <<"text">>)
    /\ storage[2].kind = "object"
    /\ storage[2].batches.kind = "array"
    /\ storage[2].deliveryPeople.kind = "array"

\* The load effect; `from` and `to` are the steps of the mount around it.
MountLoadAt(from, to) ==
    LET loaded == loadEffect(storage) IN
    /\ pc = from
    /\ pc' = to
    /\ IF loaded.set
       THEN /\ batches' = loaded.batches.items
            /\ deliveryPeople' = loaded.deliveryPeople.items
       ELSE UNCHANGED <<batches, deliveryPeople>>
    /\ UNCHANGED <<now, zodOmit, view, modalState, selectedBatch,
                   selectedPerson, confirmModalProps, errors, dashboardBatches,
                   archivedBatches, storage, description, isGenerating,
                   inFlight>>

\* The save effect of the first render.
MountSaveAt(from, to) ==
    /\ pc = from
    /\ pc' = to
    /\ storage' = saveEffect(<<>>, <<>>, storage, TRUE)
    /\ UNCHANGED <<now, zodOmit, deliveryPeople, batches, view, modalState,
                   selectedBatch, selectedPerson, confirmModalProps, errors,
                   dashboardBatches, archivedBatches, description,
                   isGenerating, inFlight>>

MountLoad == MountLoadAt("mount", "loaded")

MountSave == MountSaveAt("loaded", "saved")

MountLoadAgain == MountLoadAt("saved", "loadedAgain")

MountSaveAgain == MountSaveAt("loadedAgain", "savedAgain")

\* The render of what the load effect set, and the save effect of that
\* render.
MountRender ==
    /\ pc \in {"saved", "savedAgain"}
    /\ pc' = "running"
    /\ UNCHANGED <<now, zodOmit, deliveryPeople, batches, view, modalState,
                   selectedBatch, selectedPerson, confirmModalProps, errors,
                   description, isGenerating, inFlight>>
    /\ Commit(TRUE, TRUE)

MountReload == pc = "running" /\ StoreReload

NextMount ==
    \/ MountLoad
    \/ MountSave
    \/ MountLoadAgain
    \/ MountSaveAgain
    \/ MountRender
    \/ MountReload
    \/ StoreAddPerson
    \/ StoreDeletePerson
    \/ StoreNewBatch
    \/ StoreDeleteBatch

SpecMount == InitMount /\ [][NextMount]_vars

\* ============================================================ the numbers
\* The number fields of the forms as the texts the user leaves in them
\* (no form validates in the browser: noValidate).  The numbers of this
\* part are counted in halves, so that 2 is the number 1 and 1 the number
\* 0.5; the schemas compare and add, which reads the same in halves.
NumberTexts == {"-1", "", "0", "0.5", "1", "1.5", "abc"}

\* Number(text), in halves: <<>> is NaN.
Number(text) ==
    CASE text = "-1" -> <<-2>>
      [] text = "" -> <<0>>
      [] text = "0" -> <<0>>
      [] text = "0.5" -> <<1>>
      [] text = "1" -> <<2>>
      [] text = "1.5" -> <<3>>
      [] OTHER -> <<>>

\* z.coerce.number() on the named fields of a form: the fields that fail
\* (z.number() refuses NaN), and the form with its numbers.
coerceErrors(form, fields) == {k \in fields : Number(form[k]) = <<>>}

coerced(form, fields) ==
    [k \in DOMAIN form |-> IF k \in fields THEN Number(form[k])[1] ELSE form[k]]

NumAddPerson ==
    /\ Len(deliveryPeople) < MaxCouriers
    /\ deliveryPeople' = addDeliveryPerson(deliveryPeople, [name |-> "ana"], now)
    /\ UNCHANGED <<now, zodOmit, batches, view, modalState, selectedBatch,
                   selectedPerson, confirmModalProps, errors, pc,
                   description, isGenerating, inFlight>>
    /\ Commit(FALSE, TRUE)

\* NewBatchModal.handleSubmit on the texts of the two number fields.
NumNewBatch ==
    \E form \in NewBatchForms(deliveryPeople, NumberTexts, {"0"}),
       t \in now..MaxClock :
        LET fields == {"pgfnInitial", "normalInitial"}
            errs == IF coerceErrors(form, fields) # {}
                    THEN coerceErrors(form, fields)
                    ELSE newBatchSchemaErrors(coerced(form, fields)) IN
        /\ Len(batches) < MaxBatches
        /\ form.deliveryPersonId # ""
        /\ IF errs # {}
           THEN /\ errors' = [NoErrors EXCEPT !.newBatch = errs]
                /\ UNCHANGED <<now, batches>>
                /\ UNCHANGED <<zodOmit, deliveryPeople, view, modalState,
                               selectedBatch, selectedPerson, confirmModalProps,
                               pc, description, isGenerating, inFlight>>
                /\ Commit(FALSE, FALSE)
           ELSE /\ now' = t
                /\ batches' = addBatch(batches,
                                       Spread(coerced(form, fields),
                                              [status |-> "pending"]), t)
                /\ errors' = NoErrors
                /\ UNCHANGED <<zodOmit, deliveryPeople, view, modalState,
                               selectedBatch, selectedPerson, confirmModalProps,
                               pc, description, isGenerating, inFlight>>
                /\ Commit(TRUE, FALSE)

\* FinalizeBatchModal.handleSubmit on the texts of the delivered and the
\* returned PGFN fields.
NumFinalize ==
    \E i \in 1..Len(batches), delivered \in NumberTexts, returned \in NumberTexts :
        LET batch == batches[i]
            form == [k \in CountFields \cup {"returnDatetime"} |->
                        CASE k = "returnDatetime" -> <<"local", 1>>
                          [] k = "pgfnDelivered" -> delivered
                          [] k = "pgfnReturned" -> returned
                          [] OTHER -> "0"]
            errs == IF coerceErrors(form, CountFields) # {}
                    THEN coerceErrors(form, CountFields)
                    ELSE finalizeBatchSchemaErrors(batch, coerced(form, CountFields)) IN
        /\ batch.status = "pending"
        /\ UNCHANGED <<now, zodOmit, deliveryPeople, view, modalState,
                       selectedBatch, selectedPerson, confirmModalProps,
                       pc, description, isGenerating, inFlight>>
        /\ IF errs # {}
           THEN /\ errors' = [NoErrors EXCEPT !.finalizeBatch = errs]
                /\ UNCHANGED batches
                /\ Commit(FALSE, FALSE)
           ELSE /\ batches' = updateBatch(batches,
                                  finalizedBatch(batch, coerced(form, CountFields)))
                /\ errors' = NoErrors
                /\ Commit(TRUE, FALSE)

\* EditBatchModal.handleSubmit on the text of the delivered PGFN field, on a
\* finalized batch.
NumEdit ==
    \E i \in 1..Len(batches), text \in NumberTexts :
        LET batch == batches[i]
            form == [k \in CountFields |->
                        IF k = "pgfnDelivered" THEN text ELSE "0"]
            errs == IF coerceErrors(form, CountFields) # {}
                    THEN coerceErrors(form, CountFields)
                    ELSE editBatchSchemaErrors(batch, coerced(form, CountFields)) IN
        /\ batch.status = "finalized"
        /\ UNCHANGED <<now, zodOmit, deliveryPeople, view, modalState,
                       selectedBatch, selectedPerson, confirmModalProps,
                       pc, description, isGenerating, inFlight>>
        /\ IF zodOmit = "throws"
           THEN UNCHANGED <<batches, errors>> /\ Commit(FALSE, FALSE)
           ELSE IF errs # {}
           THEN /\ errors' = [NoErrors EXCEPT !.editBatch = errs]
                /\ UNCHANGED batches
                /\ Commit(FALSE, FALSE)
           ELSE /\ batches' = updateBatch(batches,
                                  editedBatch(batch, coerced(form, CountFields)))
                /\ errors' = NoErrors
                /\ Commit(TRUE, FALSE)

NumDeleteBatch ==
    \E i \in 1..Len(batches) :
        /\ batches' = deleteBatch(batches, batches[i].id)
        /\ errors' = NoErrors
        /\ UNCHANGED <<now, zodOmit, deliveryPeople, view, modalState,
                       selectedBatch, selectedPerson, confirmModalProps,
                       pc, description, isGenerating, inFlight>>
        /\ Commit(TRUE, FALSE)

NextNumbers ==
    \/ NumAddPerson
    \/ NumNewBatch
    \/ NumFinalize
    \/ NumEdit
    \/ NumDeleteBatch

SpecNumbers == Init /\ [][NextNumbers]_vars

\* ============================================================ properties
\* Vocabulary.
UniqueIds ==
    \A i, j \in 1..Len(batches) : batches[i].id = batches[j].id => i = j

HasCounts(b) == CountFields \subseteq DOMAIN b

Conserves(b) ==
    /\ b.pgfnDelivered + b.pgfnReturned + b.pgfnAbsent = b.pgfnInitial
    /\ b.normalDelivered + b.normalReturned + b.normalAbsent = b.normalInitial

IdentifiesPerson(id) ==
    \E i \in 1..Len(deliveryPeople) : deliveryPeople[i].id = id

\* The batch the store holds under the id of the selected batch is not pending.
StoredNotPending ==
    \E i \in 1..Len(batches) :
        batches[i].id = selectedBatch[1].id /\ batches[i].status # "pending"

\* The sequence s without its i-th element.
RemoveAt(s, i) == SubSeq(s, 1, i - 1) \o SubSeq(s, i + 1, Len(s))

\* C1: in every reachable state every finalized batch conserves its items in
\* both categories: delivered + returned + absent = initial.  Stated here for
\* the states whose batch ids are distinct.
C1_FinalizedConserves ==
    UniqueIds =>
        \A i \in 1..Len(batches) :
            batches[i].status = "finalized" =>
                HasCounts(batches[i]) /\ Conserves(batches[i])

\* C2: a pending batch carries none of the finalized-only fields and a
\* finalized batch carries all of them.  Stated here for the states whose
\* batch ids are distinct.
C2_FinalizedOnlyFields ==
    UniqueIds =>
        \A i \in 1..Len(batches) :
            /\ batches[i].status = "pending" =>
                  (DOMAIN batches[i]) \cap FinalizedOnlyFields = {}
            /\ batches[i].status = "finalized" =>
                  FinalizedOnlyFields \subseteq DOMAIN batches[i]

\* C3: a step that changes the status of a stored batch is a finalize step
\* on a pending batch: the status moves from pending to finalized only, and
\* no other operation moves it.
C3_StatusOnlyForward ==
    [][Len(batches') = Len(batches) =>
          \A i \in 1..Len(batches) :
              batches'[i].status # batches[i].status =>
                  /\ FinalizeSubmit
                  /\ batches[i].status = "pending"
                  /\ batches'[i].status = "finalized"]_vars

\* C4: a finalize submitted for a batch that the store holds as not pending
\* changes no batch.  Stated here for the states whose batch ids are
\* distinct.
C4_FinalizeOnlyPending ==
    [][(UniqueIds /\ Shown("finalizeBatch") /\ StoredNotPending /\ FinalizeSubmit)
          => batches' = batches]_vars

\* C5: a count edit of a finalized batch whose counts break conservation
\* changes no batch and reports exactly the unbalanced categories.  Stated
\* here for the states whose batch ids are distinct.
C5_EditRejectsUnbalanced ==
    [][\A data \in CountForms(CountInputs, {0}) :
          (/\ EditSubmitWith(data)
           /\ UniqueIds
           /\ selectedBatch[1].status = "finalized"
           /\ conservationErrors(selectedBatch[1], data) # {})
          => /\ batches' = batches
             /\ errors'.editBatch = conservationErrors(selectedBatch[1], data)]_vars

\* C6: no stored batch has both initial counts zero, and a creation
\* submitted with both counts zero reports an error on pgfnInitial and
\* inserts nothing.
C6_NoEmptyBatch ==
    /\ [](\A i \in 1..Len(batches) :
             batches[i].pgfnInitial > 0 \/ batches[i].normalInitial > 0)
    /\ [][\A data \in NewBatchForms(deliveryPeople, InitialInputs, InitialInputs),
             t \in now..MaxClock :
             (/\ CtlNewBatchWith(data, t)
              /\ data.pgfnInitial = 0
              /\ data.normalInitial = 0)
             => /\ batches' = batches
                /\ "pgfnInitial" \in errors'.newBatch]_vars

\* A creation with both counts zero, for a chosen courier, was refused.
C6_Witness ==
    /\ errors.newBatch = {"pgfnInitial"}
    /\ Len(batches) > 0

C8_DeleteRemovesOnlyThePerson ==
    [][\A i \in 1..Len(deliveryPeople) :
          RosterDeleteOf(deliveryPeople[i].id) =>
              /\ deliveryPeople' = RemoveAt(deliveryPeople, i)
              /\ \A b \in {batches'[j] : j \in 1..Len(batches')} :
                     b.deliveryPersonId # deliveryPeople[i].id
              /\ \E f \in [1..Len(batches') -> 1..Len(batches)] :
                     /\ \A j, k \in 1..Len(batches') : j < k => f[j] < f[k]
                     /\ \A j \in 1..Len(batches') : batches'[j] = batches[f[j]]
                     /\ \A k \in 1..Len(batches) :
                            batches[k].deliveryPersonId # deliveryPeople[i].id
                                => \E j \in 1..Len(batches') : f[j] = k]_vars

\* C9: every batch refers to a person of the store.
C9_NoOrphanBatch ==
    \A i \in 1..Len(batches) : IdentifiesPerson(batches[i].deliveryPersonId)

\* A courier was deleted and batches of another courier remain.
C9_Witness ==
    /\ confirmModalProps.kind = "deleteDeliveryPerson"
    /\ ~IdentifiesPerson(confirmModalProps.id)
    /\ Len(batches) > 0

\* C10: the totalValue of a finalized batch is the fee times its delivered
\* and returned items, and a step that changes only absent counts of a
\* batch leaves its totalValue as it was.
C10_TotalValue ==
    /\ [](\A i \in 1..Len(batches) :
             batches[i].status = "finalized" =>
                 batches[i].totalValue =
                     (batches[i].pgfnDelivered + batches[i].pgfnReturned
                      + batches[i].normalDelivered + batches[i].normalReturned)
                         * DELIVERY_FEE)
    /\ [][Len(batches') = Len(batches) =>
             \A i \in 1..Len(batches) :
                 (/\ HasCounts(batches[i])
                  /\ HasCounts(batches'[i])
                  /\ \A k \in CountFields \ {"pgfnAbsent", "normalAbsent"} :
                         batches'[i][k] = batches[i][k])
                 => batches'[i].totalValue = batches[i].totalValue]_vars

\* A finalized batch whose counts were edited (they no longer conserve),
\* with an absent item and a delivered item: the fee is paid once.
C10_Witness ==
    \E i \in 1..Len(batches) :
        /\ batches[i].status = "finalized"
        /\ ~Conserves(batches[i])
        /\ batches[i].pgfnAbsent = 1
        /\ batches[i].normalDelivered = 1
        /\ batches[i].totalValue = DELIVERY_FEE

\* The people of the store have distinct ids.
UniquePeople ==
    \A i, j \in 1..Len(deliveryPeople) :
        deliveryPeople[i].id = deliveryPeople[j].id => i = j

\* C11: no two batches of the store share an id and no two people share an
\* id, whatever the clock read when they were created.
C11_IdsUnique == UniqueIds /\ UniquePeople

\* The number of occurrences of a batch in a list.
Occurrences(b, list) == Cardinality({k \in 1..Len(list) : list[k] = b})

\* C12: whatever the store and the clock, the partition puts every batch in
\* exactly one of the two lists: in the archived list if and only if it is
\* finalized and more than the archival delay has passed since its return,
\* in the active list otherwise; a batch returned exactly the delay ago is
\* active.
C12_PartitionExact ==
    LET p == Partition(batches, now) IN
    /\ Len(p.dashboardBatches) + Len(p.archivedBatches) = Len(batches)
    /\ \A i \in 1..Len(batches) :
          LET b == batches[i]
              late == /\ b.status = "finalized"
                      /\ now - GetTime(b.returnDatetime) > ArchiveDelayMs IN
          /\ Occurrences(b, p.archivedBatches) =
                 (IF late THEN Occurrences(b, batches) ELSE 0)
          /\ Occurrences(b, p.dashboardBatches) =
                 (IF late THEN 0 ELSE Occurrences(b, batches))

\* A render has just partitioned a store with a batch returned exactly the
\* delay ago, which is active, and one returned a millisecond earlier, which
\* is archived.
C12_Witness ==
    /\ dashboardBatches = Partition(batches, now).dashboardBatches
    /\ archivedBatches = Partition(batches, now).archivedBatches
    /\ \E i \in 1..Len(dashboardBatches) :
          /\ dashboardBatches[i].status = "finalized"
          /\ now - GetTime(dashboardBatches[i].returnDatetime) = ArchiveDelayMs
    /\ \E j \in 1..Len(archivedBatches) :
          now - GetTime(archivedBatches[j].returnDatetime) = ArchiveDelayMs + 1

\* C13: the lists a render shows are the partition of the store against the
\* clock at the time of that render, also when the store did not change
\* since the render before: here the render that follows a change of view.
C13_ReadSeesCurrentPartition ==
    [][ViewNavigate /\ view' # view =>
          /\ dashboardBatches' = Partition(batches', now').dashboardBatches
          /\ archivedBatches' = Partition(batches', now').archivedBatches]_vars

\* The sum of the named fields of a batch.
RECURSIVE FieldSum(_, _)
FieldSum(b, fields) ==
    IF fields = <<>> THEN 0 ELSE b[Head(fields)] + FieldSum(b, Tail(fields))

\* The sum of the named fields over the finalized batches of a list.
RECURSIVE SumFinalized(_, _)
SumFinalized(list, fields) ==
    IF list = <<>>
    THEN 0
    ELSE SumFinalized(Tail(list), fields)
         + (IF Head(list).status = "finalized"
            THEN FieldSum(Head(list), fields) ELSE 0)

\* C14: the summary of the batches handed to the dashboard gives, as total
\* value, delivered, returned and absent, the sums of those fields over all
\* the finalized batches among them, those of total value 0 included.
C14_SummaryTotals ==
    LET s == summary(dashboardBatches) IN
    /\ s.totalGains = SumFinalized(dashboardBatches, <<"totalValue">>)
    /\ s.totalDelivered =
           SumFinalized(dashboardBatches, <<"pgfnDelivered", "normalDelivered">>)
    /\ s.totalReturned =
           SumFinalized(dashboardBatches, <<"pgfnReturned", "normalReturned">>)
    /\ s.totalAbsent =
           SumFinalized(dashboardBatches, <<"pgfnAbsent", "normalAbsent">>)

\* The batches of a list that carry the id of a courier.
BatchesOf(list, personId) ==
    LET Mine(b) == b.deliveryPersonId = personId IN SelectSeq(list, Mine)

\* C15: the per-courier summary has exactly one entry for every person of
\* the people collection, whose value, delivered and returned are the sums
\* over the finalized batches of that courier among the batches handed to
\* the dashboard: zeros for a courier without batches.
C15_PerCourierTotals ==
    LET perf == performance(dashboardBatches, deliveryPeople) IN
    /\ Cardinality(DOMAIN perf) = Len(deliveryPeople)
    /\ \A i \in 1..Len(deliveryPeople) :
          LET id == deliveryPeople[i].id
              mine == BatchesOf(dashboardBatches, id) IN
          /\ id \in DOMAIN perf
          /\ perf[id].gains = SumFinalized(mine, <<"totalValue">>)
          /\ perf[id].delivered =
                 SumFinalized(mine, <<"pgfnDelivered", "normalDelivered">>)
          /\ perf[id].returned =
                 SumFinalized(mine, <<"pgfnReturned", "normalReturned">>)

\* A handler called with an id that is in neither collection.
AbsentIdCall ==
    \/ \E p \in [id : CallIds, name : RenameInputs] :
          p.id \notin Ids(deliveryPeople) /\ CallUpdateDeliveryPersonWith(p)
    \/ \E id \in CallIds \ Ids(deliveryPeople) : CallDeleteDeliveryPersonOf(id)
    \/ \E b \in CallBatches : b.id \notin Ids(batches) /\ CallUpdateBatchWith(b)
    \/ \E id \in CallIds \ Ids(batches) : CallDeleteBatchOf(id)

\* C16: an update or a delete of a person or of a batch, called with an id
\* that is not in the store, reports a failure and leaves the people and the
\* batches as they were.
C16_AbsentIdFails ==
    [][AbsentIdCall =>
          /\ errors' # NoErrors
          /\ deliveryPeople' = deliveryPeople
          /\ batches' = batches]_vars

\* C20: after every creation, update and deletion the people are in the
\* order of their names.
C20_PeopleSortedByName ==
    \A i, j \in 1..Len(deliveryPeople) :
        i < j => localeCompare(deliveryPeople[i].name, deliveryPeople[j].name) <= 0

\* The person created first was renamed to the last name of the order and
\* now stands behind the person created after it.
C20_Witness ==
    /\ Len(deliveryPeople) = 2
    /\ selectedPerson = <<deliveryPeople[2]>>
    /\ deliveryPeople[2].name = "Caio"
    /\ deliveryPeople[2].id = NewId(0)
    /\ deliveryPeople[1].name = "Bia"
    /\ deliveryPeople[1].id = NewId(1)

\* A mutation of the store whose write to the storage succeeds (ok) or not.
StoreMutationWith(ok) ==
    \/ StoreAddPersonWith(ok)
    \/ StoreDeletePersonWith(ok)
    \/ StoreNewBatchWith(ok)
    \/ StoreDeleteBatchWith(ok)

\* C17: a mutation whose write succeeds leaves in the storage the snapshot
\* of both collections as they are after it; a mutation whose write fails
\* leaves the storage as it was and the collections mutated; and whatever
\* the storage holds, the running App takes the next mutation.
C17_SnapshotFollowsStore ==
    /\ [][StoreMutationWith(TRUE) =>
             storage' = Stringify(batches', deliveryPeople')]_vars
    /\ [][StoreMutationWith(FALSE) =>
             /\ storage' = storage
             /\ <<batches', deliveryPeople'>> # <<batches, deliveryPeople>>]_vars
    /\ [](pc = "running" =>
             /\ Len(deliveryPeople) < MaxCouriers => ENABLED StoreAddPersonWith(FALSE)
             /\ deliveryPeople # <<>> => ENABLED StoreDeletePersonWith(FALSE)
             /\ (deliveryPeople # <<>> /\ Len(batches) < MaxBatches)
                    => ENABLED StoreNewBatchWith(FALSE)
             /\ batches # <<>> => ENABLED StoreDeleteBatchWith(FALSE))

\* The storage holds the empty snapshot while the store has a courier and a
\* batch created at the second reading of the clock: the write of that
\* creation failed, after an earlier write had failed.
C17_Witness ==
    /\ pc = "running"
    /\ storage = Stringify(<<>>, <<>>)
    /\ Len(deliveryPeople) = 1
    /\ Len(batches) = 1
    /\ batches[1].id = NewId(1)

\* A stored item that is absent or malformed: no item, a text that is no
\* JSON, a value that is no object, or an object of which the batches or the
\* people are missing or are no list.
Malformed(item) ==
    \/ item = <<>>
    \/ item = <<"text">>
    \/ item[2].kind # "object"
    \/ item[2].batches.kind # "array"
    \/ item[2].deliveryPeople.kind # "array"

\* C18: a mount over an absent or malformed stored item ends with the App
\* running and both collections empty.
C18_MalformedStartsEmpty ==
    [][(pc = "mount" /\ Malformed(storage) /\ pc' # "mount") =>
          /\ pc' = "running"
          /\ batches' = <<>>
          /\ deliveryPeople' = <<>>]_vars

\* C19: the reply of an assistant call that outlived its form (the form was
\* submitted or closed before the reply came) changes no batch of the store
\* and no field of the form that is open when it comes.
C19_LateReplyChangesNothing ==
    [][(inFlight = "stale" /\ AssistReply) =>
          /\ batches' = batches
          /\ modalState.newBatch => description' = description]_vars

\* A list of batches is in the order of the views with respect to the store:
\* departures descend, and the batches of one departure stand as they stand
\* in the store.
InViewOrder(list, all) ==
    /\ \A i, j \in 1..Len(list) :
          i < j => GetTime(list[i].departureDatetime)
                       >= GetTime(list[j].departureDatetime)
    /\ \A d \in {list[i].departureDatetime : i \in 1..Len(list)} :
          LET Departs(b) == b.departureDatetime = d
              Listed(b) == Departs(b) /\ \E i \in 1..Len(list) : list[i] = b
          IN SelectSeq(list, Departs) = SelectSeq(all, Listed)

\* C21: the active list and the archived list, as the partition gives them
\* and as the views hold them, are in descending order of departure, and
\* batches of equal departure keep the order they have in the store.
C21_ViewsOrdered ==
    /\ InViewOrder(Partition(batches, now).dashboardBatches, batches)
    /\ InViewOrder(Partition(batches, now).archivedBatches, batches)
    /\ InViewOrder(dashboardBatches, batches)
    /\ InViewOrder(archivedBatches, batches)

\* The dashboard holds two batches in the reverse of their order in the
\* store: the batch created last departed first.
C21_Witness ==
    /\ Len(batches) = 2
    /\ dashboardBatches = <<batches[2], batches[1]>>
    /\ GetTime(batches[2].departureDatetime) > GetTime(batches[1].departureDatetime)

\* The fields a finalize and a count-edit leave alone.
FrameFields ==
    {"id", "deliveryPersonId", "pgfnInitial", "normalInitial",
     "departureDatetime", "estimatedReturnDate", "description"}

\* C22: a finalize step and a count-edit step touch no person and at most
\* one batch; of that batch they keep the id, the courier, the initial
\* counts, the two dates of the dispatch and the description, and a
\* count-edit of a finalized batch keeps its status and its return time
\* too.
C22_FrameOfFinalizeAndEdit ==
    [][(FinalizeSubmit \/ EditSubmit) =>
          /\ deliveryPeople' = deliveryPeople
          /\ Len(batches') = Len(batches)
          /\ \A i, j \in 1..Len(batches) :
                (batches'[i] # batches[i] /\ batches'[j] # batches[j]) => i = j
          /\ \A i \in 1..Len(batches) :
                /\ \A f \in FrameFields : batches'[i][f] = batches[i][f]
                /\ (EditSubmit /\ batches[i].status = "finalized") =>
                      /\ batches'[i].status = "finalized"
                      /\ batches'[i].returnDatetime = batches[i].returnDatetime]_vars

\* A number counted in halves that is a non-negative integer.
IsNatural(halves) == halves >= 0 /\ halves % 2 = 0

\* C23: every count a batch of the store carries, the two initial counts and
\* the six counts of the return, is a non-negative integer.
C23_CountsAreNaturals ==
    \A i \in 1..Len(batches) :
        \A k \in ({"pgfnInitial", "normalInitial"} \cup CountFields)
                    \cap DOMAIN batches[i] :
            IsNatural(batches[i][k])

\* C24: a mount over a well-formed stored item loads the collections of
\* that item, no later effect of the mount changes what was loaded, and the
\* mount ends with the storage holding the snapshot of those collections.
C24_MountKeepsSnapshot ==
    [][/\ MountLoad => storage = Stringify(batches', deliveryPeople')
       /\ pc \in {"loaded", "saved", "loadedAgain", "savedAgain"} =>
             /\ batches' = batches
             /\ deliveryPeople' = deliveryPeople
             /\ pc' = "running" => storage' = Stringify(batches', deliveryPeople')
      ]_vars

\* C25: pressing "Editar" in the details of a batch shows the count-edit
\* form for that batch, and whenever the count-edit form is shown it is
\* shown for a finalized batch, with neither the finalize form nor the
\* details shown with it.
C25_EditFormForPressedBatch ==
    /\ [][DetailsEdit =>
             /\ selectedBatch' = selectedBatch
             /\ modalState'.editBatch
             /\ ~modalState'.batchDetails]_vars
    /\ [](Shown("editBatch") =>
             /\ selectedBatch[1].status = "finalized"
             /\ ~Shown("finalizeBatch")
             /\ ~Shown("batchDetails"))
====
